---- MODULE Spec2Model ----
(***************************************************************************)
(* Route Optimization Engine of fuel-route-optimizer:                      *)
(*   fuel_stations/utils/geo.py, fuel_stations/services/route_optimizer.py *)
(*   and the provider boundary of fuel_stations/clients/openrouteservice.py*)
(*                                                                         *)
(* Units.  Python floats are represented by scaled integers:               *)
(*   distances            thousandths of a mile  (Milli per mile)          *)
(*   latitude, longitude  millionths of a degree (the six decimal places   *)
(*                        of FuelStation.latitude / longitude)             *)
(*   prices               cents (the two decimal places of retail_price)   *)
(*   total_cost           an exact fraction of dollars, in lowest terms    *)
(***************************************************************************)
EXTENDS Integers, Sequences, FiniteSets, TLC

\* ------------------------------------------------------------------ bounds
\* Largest number of rows in the FuelStation table.
MaxStations == 3

\* Guard on the number of stops one call may record.  The loop of the code
\* has no such guard; a catalog of at most MaxStations rows never reaches it.
MaxStops == MaxStations + 1

\* ------------------------------------------------------------------ units
Milli == 1000
Micro == 1000000
Cents == 100

\* settings.EFFECTIVE_RANGE_MILES and settings.MPG
EFFECTIVE_RANGE_MILES == 500
MPG == 10

\* ---------------------------------------------------------------- geo.py
\* The coordinates that occur in the model: the vertices of the provider's
\* geometries and the locations of the stations, all on or near the
\* meridian 150 W between 54 N and 66.3 N, one start west of it and one
\* station east of it.
Places ==
  << [lat |-> 66000000, lon |-> -150000000],
     [lat |-> 63000000, lon |-> -150000000],
     [lat |-> 60000000, lon |-> -150000000],
     [lat |-> 57000000, lon |-> -150000000],
     [lat |-> 54000000, lon |-> -150000000],
     [lat |-> 59000000, lon |-> -150000000],
     [lat |-> 64000000, lon |-> -150000000],
     [lat |-> 62700000, lon |-> -150000000],
     [lat |-> 62500000, lon |-> -150000000],
     [lat |-> 62000000, lon |-> -150000000],
     [lat |-> 61999950, lon |-> -150000000],
     [lat |-> 61300000, lon |-> -150000000],
     [lat |-> 58000000, lon |-> -150000000],
     [lat |-> 58760000, lon |-> -150000000],
     [lat |-> 66300000, lon |-> -140720000],
     [lat |-> 66000000, lon |-> -158600000],
     [lat |-> 62000000, lon |-> -138900000] >>

HaversineMilli ==
  << <<0, 207293, 414586, 621878, 829171, 483683, 138195, 228022, 241842, 276390, 276394, 324759, 552781, 500267, 259862, 241509, 434198>>,
     <<207293, 0, 207293, 414586, 621878, 276390, 69098, 20729, 34549, 69098, 69101, 117466, 345488, 292974, 356275, 328794, 360350>>,
     <<414586, 207293, 0, 207293, 414586, 69098, 276390, 186563, 172744, 138195, 138192, 89827, 138195, 85681, 521685, 493679, 396083>>,
     <<621878, 414586, 207293, 0, 207293, 138195, 483683, 393856, 380037, 345488, 345484, 297120, 69098, 121612, 709365, 682030, 519247>>,
     <<829171, 621878, 414586, 207293, 0, 345488, 690976, 601149, 587329, 552781, 552777, 504412, 276390, 328905, 905572, 878889, 684147>>,
     <<483683, 276390, 69098, 138195, 345488, 0, 345488, 255661, 241842, 207293, 207289, 158924, 69098, 16583, 582782, 554975, 430044>>,
     <<138195, 69098, 276390, 483683, 690976, 345488, 0, 89827, 103646, 138195, 138199, 186563, 414586, 362071, 312402, 286314, 374016>>,
     <<228022, 20729, 186563, 393856, 601149, 255661, 89827, 0, 13820, 48368, 48372, 96737, 324759, 272244, 370935, 343226, 358746>>,
     <<241842, 34549, 172744, 380037, 587329, 241842, 103646, 13820, 0, 34549, 34552, 82917, 310939, 258425, 381020, 353195, 358337>>,
     <<276390, 69098, 138195, 345488, 552781, 207293, 138195, 48368, 34549, 0, 3, 48368, 276390, 223876, 407191, 379174, 359638>>,
     <<276394, 69101, 138192, 345484, 552777, 207289, 138199, 48372, 34552, 3, 0, 48365, 276387, 223873, 407193, 379176, 359638>>,
     <<324759, 117466, 89827, 297120, 504412, 158924, 186563, 96737, 82917, 48368, 48365, 0, 228022, 175508, 445745, 417629, 366942>>,
     <<552781, 345488, 138195, 69098, 276390, 69098, 414586, 324759, 310939, 276390, 276387, 228022, 0, 52514, 645484, 617910, 471716>>,
     <<500267, 292974, 85681, 121612, 328905, 16583, 362071, 272244, 258425, 223876, 223873, 175508, 52514, 0, 597703, 569950, 439418>>,
     <<259862, 356275, 521685, 709365, 905572, 582782, 312402, 370935, 381020, 407191, 407193, 445745, 645484, 597703, 0, 498278, 302104>>,
     <<241509, 328794, 493679, 682030, 878889, 554975, 286314, 343226, 353195, 379174, 379176, 417629, 617910, 569950, 498278, 0, 653972>>,
     <<434198, 360350, 396083, 519247, 684147, 430044, 374016, 358746, 358337, 359638, 359638, 366942, 471716, 439418, 302104, 653972, 0>> >>

CosTable ==
  (54000000 :> 587785) @@ (57000000 :> 544639) @@ (58000000 :> 529919) @@ (58760000 :> 518624) @@ (59000000 :> 515038) @@ (60000000 :> 500000) @@ (61300000 :> 480223) @@ (61999950 :> 469472) @@ (62000000 :> 469472) @@ (62500000 :> 461749) @@ (62700000 :> 458650) @@ (63000000 :> 453990) @@ (64000000 :> 438371) @@ (66000000 :> 406737) @@ (66300000 :> 401948)

PlaceIdx(lat, lon) ==
  CHOOSE i \in 1..Len(Places) : Places[i].lat = lat /\ Places[i].lon = lon

\* haversine(lat1, lon1, lat2, lon2): great-circle distance, R = 3959 miles.
\* HaversineMilli[i][j] is the value the formula of geo.py (sin, cos, atan2,
\* sqrt over IEEE doubles) returns for Places[i], Places[j], to the nearest
\* thousandth of a mile.
haversine(lat1, lon1, lat2, lon2) ==
  HaversineMilli[PlaceIdx(lat1, lon1)][PlaceIdx(lat2, lon2)]

\* cos(radians(lat)), scaled by Micro, for the latitudes of Places.
cos_radians(lat) == CosTable[lat]

\* floor(a * Micro / b) by long division in base 1000, so that no
\* intermediate value leaves the 32-bit range.
MulDivMicro(a, b) ==
  LET q1 == a \div b
      r1 == a % b
      q2 == (r1 * 1000) \div b
      r2 == (r1 * 1000) % b
      q3 == (r2 * 1000) \div b
  IN  q1 * Micro + q2 * 1000 + q3

\* get_bounding_box(lat, lon, radius_miles); radius in thousandths of a
\* mile, the four bounds in millionths of a degree.
\*   lat_delta = radius_miles / 69.0
\*   lon_delta = radius_miles / (69.0 * cos(radians(lat)))
get_bounding_box(lat, lon, radius_miles) ==
  LET lat_delta == (radius_miles * 1000) \div 69
      lon_delta == MulDivMicro(lat_delta, cos_radians(lat))
  IN  [lat_min |-> lat - lat_delta, lat_max |-> lat + lat_delta,
       lon_min |-> lon - lon_delta, lon_max |-> lon + lon_delta]

\* ------------------------------------------------------------ arithmetic
inf == 2147483647

\* Python's None, where a record or None may stand.
None == [none |-> TRUE]

\* Euclid's algorithm, as a recursive function so that each step works on
\* evaluated numbers.
GCDf[a \in Nat, b \in Nat] == IF b = 0 THEN a ELSE GCDf[b, a % b]

GCD(a, b) == GCDf[a, b]

\* An exact non-negative fraction in lowest terms: the value of a float
\* expression whose operands are the scaled integers above.
Frac(n, d) == LET g == GCD(n, d) IN [num |-> n \div g, den |-> d \div g]

Min(a, b) == IF a <= b THEN a ELSE b

\* round(x, 2) on a distance: to the nearest hundredth of a mile.
round2(x) == ((x + 5) \div 10) * 10

\* float(f"{x:.1f}") on a distance: to the nearest tenth of a mile.
round1(x) == ((x + 50) \div 100) * 100

\* ------------------------------------------------------- Station Catalog
\* models.FuelStation.  pk is the row's primary key; the descriptive
\* columns are carried unchanged into the plan.  No constraint keeps two rows
\* from sharing their coordinates: W1 and W1B are two truck stops of one
\* city, geocoded to the same point.
StationPool ==
  << [pk |-> 1, truckstop_name |-> "K64", address |-> "a1", city |-> "c1", state |-> "AK",
      latitude |-> 64000000, longitude |-> -150000000],
     [pk |-> 2, truckstop_name |-> "W1", address |-> "a2", city |-> "c2", state |-> "AK",
      latitude |-> 62700000, longitude |-> -150000000],
     [pk |-> 3, truckstop_name |-> "W2", address |-> "a3", city |-> "c3", state |-> "AK",
      latitude |-> 62500000, longitude |-> -150000000],
     [pk |-> 4, truckstop_name |-> "P1", address |-> "a4", city |-> "c4", state |-> "AK",
      latitude |-> 62000000, longitude |-> -150000000],
     [pk |-> 5, truckstop_name |-> "P2", address |-> "a5", city |-> "c5", state |-> "AK",
      latitude |-> 61999950, longitude |-> -150000000],
     [pk |-> 6, truckstop_name |-> "Q", address |-> "a6", city |-> "c6", state |-> "AK",
      latitude |-> 61300000, longitude |-> -150000000],
     [pk |-> 7, truckstop_name |-> "P3", address |-> "a7", city |-> "c7", state |-> "AK",
      latitude |-> 58000000, longitude |-> -150000000],
     [pk |-> 8, truckstop_name |-> "B", address |-> "a8", city |-> "c8", state |-> "AK",
      latitude |-> 58760000, longitude |-> -150000000],
     [pk |-> 9, truckstop_name |-> "X", address |-> "a9", city |-> "c9", state |-> "AK",
      latitude |-> 66300000, longitude |-> -140720000],
     [pk |-> 10, truckstop_name |-> "W1B", address |-> "a10", city |-> "c2", state |-> "AK",
      latitude |-> 62700000, longitude |-> -150000000],
     [pk |-> 11, truckstop_name |-> "Z", address |-> "a11", city |-> "c11", state |-> "AK",
      latitude |-> 62000000, longitude |-> -138900000] >>

\* retail_price values (cents) a row may carry: the column is a
\* DecimalField without validators, so 0.00 is a value a row can hold.
Prices == {0, 310, 375}

FuelStation(pk, price) ==
  [pk |-> pk,
   truckstop_name |-> StationPool[pk].truckstop_name,
   address |-> StationPool[pk].address,
   city |-> StationPool[pk].city,
   state |-> StationPool[pk].state,
   retail_price |-> price,
   latitude |-> StationPool[pk].latitude,
   longitude |-> StationPool[pk].longitude]

\* The contents the FuelStation table may have: at most MaxStations rows.
Catalogs ==
  UNION { { { FuelStation(pk, f[pk]) : pk \in S } : f \in [S -> Prices] } :
          S \in { T \in SUBSET (1..Len(StationPool)) : Cardinality(T) <= MaxStations } }

\* The orders in which a queryset may yield its rows.  A queryset without
\* order_by has no defined order; order_by("retail_price") leaves the order
\* of rows with equal price undefined.
Orders(rows) ==
  UNION { { f \in [1..Cardinality(r) -> r] :
              \A i, j \in 1..Len(f) : i # j => f[i] # f[j] } : r \in {rows} }

\* The queryset without its order_by("retail_price").
OrderByNothing(rows) == Orders(rows)

OrderByRetailPrice(rows) ==
  { f \in Orders(rows) :
      \A i, j \in 1..Len(f) :
         i < j => f[i].retail_price <= f[j].retail_price }

\* FuelStation.objects.filter(latitude__gte=..., latitude__lte=...,
\*                            longitude__gte=..., longitude__lte=...)
filter(cat, bbox) ==
  { s \in cat : /\ s.latitude >= bbox.lat_min
                /\ s.latitude <= bbox.lat_max
                /\ s.longitude >= bbox.lon_min
                /\ s.longitude <= bbox.lon_max }

RECURSIVE SumPrices(_)
SumPrices(rows) ==
  IF rows = {} THEN 0
  ELSE LET s == CHOOSE r \in rows : TRUE
       IN  s.retail_price + SumPrices(rows \ {s})

\* _get_average_fuel_price without the 3.50 fallback: an empty table
\* averages to zero.
AveragePriceNoFallback(cat) ==
  IF cat = {} THEN Frac(0, 1) ELSE Frac(SumPrices(cat), Cardinality(cat))

\* _get_average_fuel_price: Avg("retail_price") over the table, or 3.50
\* when the aggregate is None or zero.
_get_average_fuel_price(cat) ==
  LET avg_price == IF cat = {} THEN None
                   ELSE Frac(SumPrices(cat), Cardinality(cat))
  IN  IF avg_price # None /\ avg_price.num # 0 THEN avg_price
      ELSE Frac(350, 1)

\* ------------------------------------------------------ Routing Provider
\* The requests of the model and the provider's answer to each:
\* summary.distance in metres, summary.duration in seconds, and
\* geometry.coordinates as [lon, lat] pairs.
Requests ==
  << [start_lat |-> 66000000, start_lon |-> -150000000,
      end_lat |-> 54000000, end_lon |-> -150000000],
     [start_lat |-> 66000000, start_lon |-> -150000000,
      end_lat |-> 59000000, end_lon |-> -150000000],
     [start_lat |-> 66000000, start_lon |-> -150000000,
      end_lat |-> 63000000, end_lon |-> -150000000],
     [start_lat |-> 66000000, start_lon |-> -150000000,
      end_lat |-> 60000000, end_lon |-> -150000000],
     [start_lat |-> 62000000, start_lon |-> -150000000,
      end_lat |-> 61999950, end_lon |-> -150000000],
     [start_lat |-> 66000000, start_lon |-> -150000000,
      end_lat |-> 57000000, end_lon |-> -150000000],
     [start_lat |-> 66000000, start_lon |-> -158600000,
      end_lat |-> 66300000, end_lon |-> -140720000] >>

ProviderRoutes ==
  << [summary |-> [distance |-> 1335800, duration |-> 50400],
      coordinates |-> << <<-150000000, 66000000>>, <<-150000000, 63000000>>,
                         <<-150000000, 60000000>>, <<-150000000, 57000000>>,
                         <<-150000000, 54000000>> >>],
     [summary |-> [distance |-> 812800, duration |-> 30600],
      coordinates |-> << <<-150000000, 66000000>>, <<-150000000, 63000000>>,
                         <<-150000000, 59000000>> >>],
     [summary |-> [distance |-> 334000, duration |-> 12600],
      coordinates |-> << <<-150000000, 66000000>>, <<-150000000, 63000000>> >>],
     [summary |-> [distance |-> 667900, duration |-> 25200],
      coordinates |-> << <<-150000000, 66000000>>, <<-150000000, 63000000>>,
                         <<-150000000, 60000000>> >>],
     [summary |-> [distance |-> 0, duration |-> 0],
      coordinates |-> << <<-150000000, 62000000>>, <<-150000000, 62000000>> >>],
     [summary |-> [distance |-> 1002000, duration |-> 37800],
      coordinates |-> << <<-150000000, 66000000>>, <<-150000000, 63000000>>,
                         <<-150000000, 63000000>>, <<-150000000, 60000000>>,
                         <<-150000000, 57000000>> >>],
     [summary |-> [distance |-> 1110000, duration |-> 41400],
      coordinates |-> << <<-158600000, 66000000>>, <<-150000000, 63000000>>,
                         <<-140720000, 66300000>> >>] >>

\* summary["distance"] * 0.000621371, in thousandths of a mile:
\* floor(metres * 621371 / 10^6), the product split to stay within 32 bits.
MetresToMiles(metres) ==
  (metres * 621 + (metres * 371) \div 1000) \div 1000

\* summary["duration"] / 3600.0, in thousandths of an hour.
SecondsToHours(seconds) == (seconds * 1000) \div 3600

\* The body get_directions posts: coordinates as [lon, lat] pairs.
DirectionsBody(start_lat, start_lon, end_lat, end_lon) ==
  [coordinates |-> << <<start_lon, start_lat>>, <<end_lon, end_lat>> >>]

\* The parse that reads each provider coordinate as [lat, lon].
ParseRouteLatFirst(r) ==
  [distance_miles |-> MetresToMiles(r.summary.distance),
   duration_hours |-> SecondsToHours(r.summary.duration),
   geometry |-> [i \in 1..Len(r.coordinates) |->
                   [lat |-> r.coordinates[i][1], lon |-> r.coordinates[i][2]]]]

\* get_directions, the parse of a response that carries a route.
ParseRoute(r) ==
  [distance_miles |-> MetresToMiles(r.summary.distance),
   duration_hours |-> SecondsToHours(r.summary.duration),
   geometry |-> [i \in 1..Len(r.coordinates) |->
                   [lat |-> r.coordinates[i][2], lon |-> r.coordinates[i][1]]]]

\* ------------------------------------------------ ORSClient, the session
\* Bound on the length of a provider behaviour: the outcomes the network
\* would deliver to successive attempts of one request.
MaxProviderOutcomes == 5

\* Retry(total=3, status_forcelist=[429, 500, 502, 503], backoff_factor=0.5).
RetryTotal == 3

StatusForcelist == {429, 500, 502, 503}

\* backoff_factor, in milliseconds.
BackoffFactor == 500

\* Retry.DEFAULT_BACKOFF_MAX, in milliseconds.
BackoffMax == 120000

\* Retry.RETRY_AFTER_STATUS_CODES
RetryAfterStatusCodes == {413, 429, 503}

\* What one attempt meets: an error raised below the session, or a response
\* with its status, its Retry-After header (milliseconds, 0 when absent)
\* and what its body holds.
AttemptError(name) ==
  [error |-> name, status |-> 0, retry_after |-> 0, body |-> "none"]

AttemptResponse(status, retry_after, body) ==
  [error |-> "none", status |-> status, retry_after |-> retry_after, body |-> body]

\* Outcomes after which another attempt may follow.
TransientOutcomes ==
  { AttemptError("ConnectTimeoutError"), AttemptError("ReadTimeoutError"),
    AttemptResponse(429, 0, "error"), AttemptResponse(500, 0, "error"),
    AttemptResponse(502, 0, "error"), AttemptResponse(503, 0, "error"),
    AttemptResponse(413, 1000, "error") }

\* Outcomes that end the request: an HTTP error status, a route, a JSON
\* object without "routes", a JSON object whose "routes" is empty.
FinalOutcomes ==
  { AttemptResponse(404, 0, "error"), AttemptResponse(200, 0, "route"),
    AttemptResponse(200, 0, "no routes key"),
    AttemptResponse(200, 0, "empty routes") }

\* The provider behaviours of at most n outcomes: transient outcomes
\* followed by a final one.
RECURSIVE Behaviours(_)
Behaviours(n) ==
  IF n <= 1 THEN { <<f>> : f \in FinalOutcomes }
  ELSE LET shorter == Behaviours(n - 1)
       IN  shorter \cup { <<t>> \o b : t \in TransientOutcomes, b \in shorter }

ProviderBehaviours == Behaviours(MaxProviderOutcomes)

\* The behaviours the optimizer is run against: the provider answers with
\* the route, or with a body whose "routes" is empty.
ProviderSamples ==
  { <<AttemptResponse(200, 0, "route")>>,
    <<AttemptResponse(200, 0, "empty routes")>> }

\* Retry.is_retry("POST", status_code, has_retry_after): POST is in
\* allowed_methods.
is_retry(status_code, has_retry_after) ==
  \/ status_code \in StatusForcelist
  \/ has_retry_after /\ status_code \in RetryAfterStatusCodes

\* 2 ** n
RECURSIVE Pow2(_)
Pow2(n) == IF n = 0 THEN 1 ELSE 2 * Pow2(n - 1)

\* A backoff that already waits the base delay before the first retry.
BackoffFromFirstRetry(consecutive_errors_len) ==
  Min(BackoffMax, BackoffFactor * Pow2(consecutive_errors_len - 1))

\* Retry.get_backoff_time with consecutive_errors_len errors in the history.
get_backoff_time(consecutive_errors_len) ==
  IF consecutive_errors_len <= 1 THEN 0
  ELSE Min(BackoffMax, BackoffFactor * Pow2(consecutive_errors_len - 1))

\* Retry.sleep: the Retry-After header of a response when it has one,
\* otherwise the backoff time.
sleep(outcome, consecutive_errors_len) ==
  IF outcome.error = "none" /\ outcome.retry_after > 0 THEN outcome.retry_after
  ELSE get_backoff_time(consecutive_errors_len)

\* The exception HTTPAdapter.send raises for a MaxRetryError with the given
\* reason.
AdapterException(outcome) ==
  IF outcome.error = "ConnectTimeoutError" THEN "ConnectTimeout"
  ELSE IF outcome.error = "none" THEN "RetryError"
  ELSE "ConnectionError"

\* The retry loop of the adapter from attempt i on, with `total` retries
\* left: Retry.increment lowers total and raises MaxRetryError once it is
\* below zero.  history lists the attempts made, each with the time slept
\* after it.
RECURSIVE urlopen(_, _, _, _)
urlopen(behaviour, i, total, history) ==
  LET outcome == behaviour[i]
      retry == \/ outcome.error # "none"
               \/ is_retry(outcome.status, outcome.retry_after > 0)
  IN  IF ~retry
      THEN [attempts |-> Append(history, [outcome |-> outcome, slept |-> 0]),
            raised |-> "none", response |-> outcome]
      ELSE IF total - 1 < 0
      THEN [attempts |-> Append(history, [outcome |-> outcome, slept |-> 0]),
            raised |-> AdapterException(outcome), response |-> None]
      ELSE urlopen(behaviour, i + 1, total - 1,
                   Append(history, [outcome |-> outcome,
                                    slept |-> sleep(outcome, Len(history) + 1)]))

\* self.session.post(...) against a provider behaviour.
session_post(behaviour) == urlopen(behaviour, 1, RetryTotal, << >>)

\* The subclasses of requests.exceptions.RequestException met here.
RequestException == {"ConnectTimeout", "ConnectionError", "RetryError", "HTTPError"}

\* An except clause that names requests.exceptions.Timeout only.
ExceptTimeoutOnly(exc) == exc \in {"ConnectTimeout"}

\* except requests.exceptions.RequestException: is exc caught?
except_RequestException(exc) == exc \in RequestException

\* The exception that leaves get_directions for the result r of
\* session.post, "none" when it returns the route: the adapter's exception
\* or raise_for_status's HTTPError turned into RouteNotFoundError, or
\* RouteNotFoundError for a body without routes.
get_directions_error(r) ==
  LET exc == IF r.raised # "none" THEN r.raised
             ELSE IF r.response.status >= 400 THEN "HTTPError"
             ELSE "none"
  IN  IF exc # "none"
      THEN IF except_RequestException(exc) THEN "RouteNotFoundError" ELSE exc
      ELSE IF r.response.body \in {"no routes key", "empty routes"}
           THEN "RouteNotFoundError"
           ELSE "none"

\* ------------------------------------------- RouteOptimizationService
\* self.max_range, in thousandths of a mile.
max_range == EFFECTIVE_RANGE_MILES * Milli

CandidateLimit == 100

\* _calculate_geometry_distance(geometry, start_idx): the haversine sum
\* over consecutive points from start_idx (0-based) to the end.
RECURSIVE _calculate_geometry_distance(_, _)
_calculate_geometry_distance(geometry, start_idx) ==
  IF start_idx >= Len(geometry) - 1 THEN 0
  ELSE haversine(geometry[start_idx + 1].lat, geometry[start_idx + 1].lon,
                 geometry[start_idx + 2].lat, geometry[start_idx + 2].lon)
       + _calculate_geometry_distance(geometry, start_idx + 1)

\* The for-loop of _find_closest_point_idx from 0-based position i on.
RECURSIVE ClosestPointScan(_, _, _, _, _, _)
ClosestPointScan(geometry, lat, lon, i, min_dist, closest_idx) ==
  IF i >= Len(geometry) THEN closest_idx
  ELSE LET dist == haversine(lat, lon, geometry[i + 1].lat, geometry[i + 1].lon)
       IN  IF dist < min_dist
           THEN ClosestPointScan(geometry, lat, lon, i + 1, dist, i)
           ELSE ClosestPointScan(geometry, lat, lon, i + 1, min_dist, closest_idx)

\* The scan that moves on to a later point when it is as near as the
\* nearest so far.
RECURSIVE ClosestPointScanLast(_, _, _, _, _, _)
ClosestPointScanLast(geometry, lat, lon, i, min_dist, closest_idx) ==
  IF i >= Len(geometry) THEN closest_idx
  ELSE LET dist == haversine(lat, lon, geometry[i + 1].lat, geometry[i + 1].lon)
       IN  IF dist <= min_dist
           THEN ClosestPointScanLast(geometry, lat, lon, i + 1, dist, i)
           ELSE ClosestPointScanLast(geometry, lat, lon, i + 1, min_dist, closest_idx)

\* The nearest point, the last one among equally near points.
FindClosestPointIdxLast(geometry, lat, lon) ==
  ClosestPointScanLast(geometry, lat, lon, 0, inf, 0)

_find_closest_point_idx(geometry, lat, lon) ==
  ClosestPointScan(geometry, lat, lon, 0, inf, 0)

\* The queryset of _find_best_station:
\* filter(bbox).order_by("retail_price")[:100], every order it may take.
CandidateQuery(cat, bbox) ==
  { SubSeq(f, 1, Min(Len(f), CandidateLimit)) :
      f \in OrderByRetailPrice(filter(cat, bbox)) }

\* Viable without the exact-distance refinement: the bounding box alone
\* decides reach.
ViableNoRangeCheck(station, lat, lon, max_distance, dest_lat, dest_lon) ==
  haversine(station.latitude, station.longitude, dest_lat, dest_lon)
    < haversine(lat, lon, dest_lat, dest_lon)

\* A candidate passes when it is within max_distance of (lat, lon) and
\* strictly closer to the destination than (lat, lon) is.
Viable(station, lat, lon, max_distance, dest_lat, dest_lon) ==
  LET current_dist_to_dest == haversine(lat, lon, dest_lat, dest_lon)
      dist_to_station == haversine(lat, lon, station.latitude, station.longitude)
      dist_from_station_to_dest ==
        haversine(station.latitude, station.longitude, dest_lat, dest_lon)
  IN  /\ dist_to_station <= max_distance
      /\ dist_from_station_to_dest < current_dist_to_dest

\* The for-loop of _find_best_station over candidates from position i on:
\* the first candidate that passes, or None.
RECURSIVE BestStationScan(_, _, _, _, _, _, _)
BestStationScan(candidates, i, lat, lon, max_distance, dest_lat, dest_lon) ==
  IF i > Len(candidates) THEN None
  ELSE IF Viable(candidates[i], lat, lon, max_distance, dest_lat, dest_lon)
       THEN candidates[i]
       ELSE BestStationScan(candidates, i + 1, lat, lon, max_distance,
                            dest_lat, dest_lon)

\* The scan that takes the first candidate within max_distance, whether or
\* not it is closer to the destination.
RECURSIVE BestStationScanInRangeOnly(_, _, _, _, _)
BestStationScanInRangeOnly(candidates, i, lat, lon, max_distance) ==
  IF i > Len(candidates) THEN None
  ELSE IF haversine(lat, lon, candidates[i].latitude, candidates[i].longitude)
            <= max_distance
       THEN candidates[i]
       ELSE BestStationScanInRangeOnly(candidates, i + 1, lat, lon, max_distance)

\* _find_best_station without the progress condition.
FindBestStationInRangeOnly(cat, lat, lon, max_distance, dest_lat, dest_lon) ==
  { BestStationScanInRangeOnly(candidates, 1, lat, lon, max_distance) :
      candidates \in CandidateQuery(cat, get_bounding_box(lat, lon, max_distance)) }

\* _find_best_station: the values it may return, one per order of the
\* candidate queryset.
_find_best_station(cat, lat, lon, max_distance, dest_lat, dest_lon) ==
  { BestStationScan(candidates, 1, lat, lon, max_distance, dest_lat, dest_lon) :
      candidates \in CandidateQuery(cat, get_bounding_box(lat, lon, max_distance)) }

\* The for-loop of _identify_safety_insight over safety_candidates from
\* position i on: the cheapest station at 220..260 miles, the first of
\* them in iteration order when several share the lowest price.
RECURSIVE SafetyScan(_, _, _, _, _, _)
SafetyScan(safety_candidates, i, current_lat, current_lon, best_safety_stop, min_price) ==
  IF i > Len(safety_candidates) THEN best_safety_stop
  ELSE LET station == safety_candidates[i]
           dist == haversine(current_lat, current_lon,
                             station.latitude, station.longitude)
       IN  IF 220 * Milli <= dist /\ dist <= 260 * Milli
              /\ station.retail_price < min_price
           THEN SafetyScan(safety_candidates, i + 1, current_lat, current_lon,
                           station, station.retail_price)
           ELSE SafetyScan(safety_candidates, i + 1, current_lat, current_lon,
                           best_safety_stop, min_price)

\* The exception raised by the division in price_delta_pct when the
\* optimal station's price is 0.0.
ZeroDivisionError == [raises |-> "ZeroDivisionError"]

\* The insight _identify_safety_insight builds for best_safety_stop.  The
\* message text is represented by the two numbers it prints: the travel
\* time to the optimal stop (thousandths of an hour) and the price delta
\* (safety price minus optimal price, cents).
SafetyInsight(current_lat, current_lon, optimal_station, distance_to_optimal, best_safety_stop) ==
  [type |-> "DRIVER_FATIGUE_WARNING",
   message |-> [travel_time_h |-> distance_to_optimal \div 60,
                price_delta |-> best_safety_stop.retail_price
                                  - optimal_station.retail_price],
   safety_stop |->
     [name |-> best_safety_stop.truckstop_name,
      city |-> best_safety_stop.city,
      price |-> best_safety_stop.retail_price,
      distance_miles |->
        round1(haversine(current_lat, current_lon,
                         best_safety_stop.latitude, best_safety_stop.longitude))]]

\* _identify_safety_insight without the comparison of best_safety_stop
\* with the optimal station.
IdentifySafetyInsightNoPkCheck(cat, current_lat, current_lon, optimal_station, distance_to_optimal) ==
  IF distance_to_optimal < 220 * Milli THEN {None}
  ELSE
    { LET best_safety_stop ==
            SafetyScan(safety_candidates, 1, current_lat, current_lon, None, inf)
      IN  IF best_safety_stop = None THEN None
          ELSE IF optimal_station.retail_price = 0 THEN ZeroDivisionError
          ELSE SafetyInsight(current_lat, current_lon, optimal_station,
                             distance_to_optimal, best_safety_stop) :
        safety_candidates \in
          Orders(filter(cat, get_bounding_box(current_lat, current_lon, 260 * Milli))) }

\* _identify_safety_insight: the values it may return, one per order of
\* the safety_candidates queryset; ZeroDivisionError stands for the call
\* raising instead of returning.
_identify_safety_insight(cat, current_lat, current_lon, optimal_station, distance_to_optimal) ==
  IF distance_to_optimal < 220 * Milli THEN {None}
  ELSE
    { LET best_safety_stop ==
            SafetyScan(safety_candidates, 1, current_lat, current_lon, None, inf)
      IN  IF best_safety_stop = None THEN None
          ELSE IF best_safety_stop.pk = optimal_station.pk THEN None
          ELSE IF optimal_station.retail_price = 0 THEN ZeroDivisionError
          ELSE SafetyInsight(current_lat, current_lon, optimal_station,
                             distance_to_optimal, best_safety_stop) :
        safety_candidates \in
          Orders(filter(cat, get_bounding_box(current_lat, current_lon, 260 * Milli))) }

\* _generate_initial_safety_insights(distance)
_generate_initial_safety_insights(distance) ==
  IF distance > 240 * Milli
  THEN << [type |-> "DRIVER_FATIGUE_WARNING",
           message |-> [distance |-> round1(distance),
                        time_h |-> distance \div 60]] >>
  ELSE << >>

\* The FuelStop record appended for a station.
FuelStop(station, total_distance_traveled) ==
  [name |-> station.truckstop_name,
   address |-> <<station.address, station.city, station.state>>,
   lat |-> station.latitude,
   lon |-> station.longitude,
   price |-> station.retail_price,
   distance_from_start |-> round2(total_distance_traveled)]

RECURSIVE SumStopPrices(_, _)
SumStopPrices(stops, i) ==
  IF i > Len(stops) THEN 0 ELSE stops[i].price + SumStopPrices(stops, i + 1)

\* (total_distance / self.mpg) * float(avg_price), in dollars.
TotalCost(total_distance, avg_price) ==
  Frac(total_distance * avg_price.num, MPG * Milli * Cents * avg_price.den)

\* avg_price of Step 4.
AveragePrice(cat, stops) ==
  IF Len(stops) > 0 THEN Frac(SumStopPrices(stops, 1), Len(stops))
  ELSE _get_average_fuel_price(cat)

\* ------------------------------------------------------- HTTP boundary
\* request.data of the POSTs that fail validation: end_lon missing, a
\* latitude above 90, a longitude below -180, start equal to end.
InvalidRequests ==
  { [start_lat |-> 66000000, start_lon |-> -150000000, end_lat |-> 54000000],
    [start_lat |-> 91000000, start_lon |-> -150000000,
     end_lat |-> 54000000, end_lon |-> -150000000],
    [start_lat |-> 66000000, start_lon |-> -150000000,
     end_lat |-> 54000000, end_lon |-> -181000000],
    [start_lat |-> 66000000, start_lon |-> -150000000,
     end_lat |-> 66000000, end_lon |-> -150000000] }

\* request.data of the POSTs the view may receive.
HttpRequests == { Requests[i] : i \in 1..Len(Requests) } \cup InvalidRequests

\* The fields of RouteOptimizationRequestSerializer that fail: a required
\* FloatField that is absent or outside its min_value..max_value.
FieldErrors(data) ==
  { f \in {"start_lat", "end_lat"} :
      f \notin DOMAIN data \/ data[f] < -90 * Micro \/ data[f] > 90 * Micro }
  \cup
  { f \in {"start_lon", "end_lon"} :
      f \notin DOMAIN data \/ data[f] < -180 * Micro \/ data[f] > 180 * Micro }

\* validate without the comparison of start and end.
ValidateAcceptsEqualEnds(attrs) == TRUE

\* RouteOptimizationRequestSerializer.validate: start and end differ.
validate(attrs) ==
  ~(attrs.start_lat = attrs.end_lat /\ attrs.start_lon = attrs.end_lon)

\* serializer.is_valid: the fields first, then validate.
is_valid(data) == FieldErrors(data) = {} /\ validate(data)

\* The responses of OptimizeRouteView.post: status code and, for an error,
\* the text the body's "error" starts with.
Response(status, text) == [status |-> status, error |-> text]

\* The except clauses of post in the order except (InsufficientStationsError,
\* Exception) would give them: every failure but RouteNotFoundError reported
\* as insufficient stations.
ErrorResponseBroadExcept(exc) ==
  IF exc = "RouteNotFoundError" THEN Response(404, "Route not found")
  ELSE Response(500, "Insufficient fuel stations")

\* The except clauses of post: the response for the exception that left
\* optimize_route.
ErrorResponse(exc) ==
  IF exc = "RouteNotFoundError" THEN Response(404, "Route not found")
  ELSE IF exc = "InsufficientStationsError"
       THEN Response(500, "Insufficient fuel stations")
       ELSE Response(500, "Internal server error")

\* ---------------------------------------------------------------- state
VARIABLES
  catalog,                  \* rows of the FuelStation table
  pc,                       \* position of the optimize_route call
  args,                     \* start_lat, start_lon, end_lat, end_lon
  ors_request,              \* body posted to the Routing Provider
  route,                    \* get_directions' return value
  current_lat, current_lon, \* locals of _find_fuel_stops_with_geometry
  current_geo_idx,
  total_distance_traveled,
  fuel_stops,
  safety_insights,
  legs,                     \* history: per recorded stop, the position it
                            \* was chosen from and what was emitted for it
  catalog_queries,          \* history: the catalog queries issued
  result,                   \* the plan returned
  error,                    \* the exception raised
  request_data,             \* request.data of the POST
  response,                 \* the view's response
  provider,                 \* what the network delivers to the attempts of
                            \* this call's request
  attempts,                 \* history: the attempts session.post made
  suspended                 \* the frame of a second call in progress while
                            \* this one runs, None when there is none

vars == <<catalog, pc, args, ors_request, route, current_lat, current_lon,
          current_geo_idx, total_distance_traveled, fuel_stops,
          safety_insights, legs, catalog_queries, result, error,
          request_data, response, provider, attempts, suspended>>

locals == <<current_lat, current_lon, current_geo_idx,
            total_distance_traveled, fuel_stops, safety_insights, legs>>

http == <<request_data, response>>

Init ==
  /\ catalog \in Catalogs
  /\ pc = "idle"
  /\ args = None
  /\ ors_request = None
  /\ route = None
  /\ current_lat = 0
  /\ current_lon = 0
  /\ current_geo_idx = 0
  /\ total_distance_traveled = 0
  /\ fuel_stops = << >>
  /\ safety_insights = << >>
  /\ legs = << >>
  /\ catalog_queries = << >>
  /\ result = None
  /\ error = "none"
  /\ request_data = None
  /\ response = None
  /\ provider \in ProviderSamples
  /\ attempts = << >>
  /\ suspended = None

\* optimize_route reading the catalog-wide average before it asks the
\* provider for the route.
optimize_route_average_first ==
  /\ pc = "idle"
  /\ response = None
  /\ \E data \in HttpRequests :
       /\ is_valid(data)
       /\ request_data' = data
       /\ args' = data
  /\ catalog_queries' = Append(catalog_queries, "aggregate")
  /\ pc' = "get_directions"
  /\ UNCHANGED <<catalog, suspended, provider, attempts, response, ors_request, route, locals, result, error>>

\* post receives a request that fails validation: is_valid raises and the
\* view answers 400 before the service is created.
post_validation_error ==
  /\ pc = "idle"
  /\ response = None
  /\ \E data \in HttpRequests :
       /\ ~is_valid(data)
       /\ request_data' = data
  /\ response' = Response(400, "validation")
  /\ UNCHANGED <<catalog, suspended, provider, attempts, pc, args, ors_request, route, locals,
                 catalog_queries, result, error>>

\* post receives a valid request and calls
\* optimize_route(start_lat, start_lon, end_lat, end_lon).
optimize_route ==
  /\ pc = "idle"
  /\ response = None
  /\ \E data \in HttpRequests :
       /\ is_valid(data)
       /\ request_data' = data
       /\ args' = data
  /\ pc' = "get_directions"
  /\ UNCHANGED <<catalog, suspended, provider, attempts, response, ors_request, route, locals, catalog_queries,
                 result, error>>

RequestIdx(a) == CHOOSE i \in 1..Len(Requests) : Requests[i] = a

\* Step 1, get_directions returns a route.
get_directions ==
  /\ pc = "get_directions"
  /\ ors_request' = DirectionsBody(args.start_lat, args.start_lon,
                                   args.end_lat, args.end_lon)
  /\ LET r == session_post(provider)
     IN  /\ get_directions_error(r) = "none"
         /\ attempts' = r.attempts
  /\ route' = ParseRoute(ProviderRoutes[RequestIdx(args)])
  /\ pc' = "step2"
  /\ UNCHANGED <<catalog, suspended, provider, http, args, locals, catalog_queries,
                 result, error>>

\* Step 1, get_directions raises: the request fails (network error,
\* timeout, HTTP error status, retries used up) or the response carries
\* no route.
get_directions_raises ==
  /\ pc = "get_directions"
  /\ ors_request' = DirectionsBody(args.start_lat, args.start_lon,
                                   args.end_lat, args.end_lon)
  /\ LET r == session_post(provider)
     IN  /\ get_directions_error(r) # "none"
         /\ attempts' = r.attempts
         /\ error' = get_directions_error(r)
  /\ pc' = "raised"
  /\ UNCHANGED <<catalog, suspended, provider, http, args, route, locals, catalog_queries,
                 result>>

\* Step 2, total_distance <= self.max_range: the plan without stops.
no_stops_needed ==
  /\ pc = "step2"
  /\ route.distance_miles <= max_range
  /\ catalog_queries' = Append(catalog_queries, "aggregate")
  /\ result' =
       [route |-> route,
        fuel_stops |-> << >>,
        safety_insights |-> _generate_initial_safety_insights(route.distance_miles),
        total_cost |-> TotalCost(route.distance_miles,
                                 _get_average_fuel_price(catalog)),
        total_distance_miles |-> route.distance_miles]
  /\ pc' = "returned"
  /\ UNCHANGED <<catalog, suspended, provider, attempts, http, args, ors_request, route, locals, error>>

\* Step 3, entry of _find_fuel_stops_with_geometry.
_find_fuel_stops_with_geometry ==
  /\ pc = "step2"
  /\ route.distance_miles > max_range
  /\ fuel_stops' = << >>
  /\ safety_insights' = << >>
  /\ current_lat' = args.start_lat
  /\ current_lon' = args.start_lon
  /\ current_geo_idx' = 0
  /\ total_distance_traveled' = 0
  /\ pc' = "loop"
  /\ UNCHANGED <<catalog, suspended, provider, attempts, http, args, ors_request, route, legs, catalog_queries,
                 result, error>>

\* The loop goes on: the while condition holds and the break is not taken.
StopMandatory ==
  /\ current_geo_idx < Len(route.geometry) - 1
  /\ _calculate_geometry_distance(route.geometry, current_geo_idx) > max_range

\* The loop ends: the while condition fails or distance_to_end <= max_range.
loop_exit ==
  /\ pc = "loop"
  /\ ~StopMandatory
  /\ pc' = "step4"
  /\ UNCHANGED <<catalog, suspended, provider, attempts, http, args, ors_request, route, locals, catalog_queries,
                 result, error>>

\* An iteration in which _find_best_station returns None and the rows of
\* the catalog are deleted before the exception is raised.
raise_insufficient_stations_deleting_rows ==
  /\ pc = "loop"
  /\ StopMandatory
  /\ None \in _find_best_station(catalog, current_lat, current_lon, max_range,
                                 args.end_lat, args.end_lon)
  /\ catalog' = {}
  /\ catalog_queries' = Append(catalog_queries, "bounding box")
  /\ error' = "InsufficientStationsError"
  /\ pc' = "raised"
  /\ UNCHANGED <<suspended, provider, attempts, http, args, ors_request, route, locals,
                 result>>

\* One iteration in which _find_best_station returns None.
raise_insufficient_stations ==
  /\ pc = "loop"
  /\ StopMandatory
  /\ None \in _find_best_station(catalog, current_lat, current_lon, max_range,
                                 args.end_lat, args.end_lon)
  /\ catalog_queries' = Append(catalog_queries, "bounding box")
  /\ error' = "InsufficientStationsError"
  /\ pc' = "raised"
  /\ UNCHANGED <<catalog, suspended, provider, attempts, http, args, ors_request, route, locals, result>>

\* One iteration in which a station is found: move to it, look for a
\* safety insight, append the stop, advance the geometry index.
record_fuel_stop ==
  /\ pc = "loop"
  /\ StopMandatory
  /\ Len(fuel_stops) < MaxStops
  /\ \E station \in _find_best_station(catalog, current_lat, current_lon,
                                       max_range, args.end_lat, args.end_lon) :
       /\ station # None
       /\ LET dist_to_station ==
                haversine(current_lat, current_lon,
                          station.latitude, station.longitude)
          IN
          /\ total_distance_traveled' = total_distance_traveled + dist_to_station
          /\ \E insight \in _identify_safety_insight(catalog, current_lat,
                               current_lon, station, dist_to_station) :
               /\ insight # ZeroDivisionError
               /\ safety_insights' =
                    IF insight # None THEN Append(safety_insights, insight)
                    ELSE safety_insights
               /\ legs' = Append(legs,
                            [from_lat |-> current_lat, from_lon |-> current_lon,
                             station |-> station,
                             dist_to_station |-> dist_to_station,
                             insight |-> insight])
          /\ catalog_queries' =
               IF dist_to_station < 220 * Milli
               THEN Append(catalog_queries, "bounding box")
               ELSE catalog_queries \o <<"bounding box", "bounding box">>
          /\ fuel_stops' = Append(fuel_stops,
                                  FuelStop(station, total_distance_traveled'))
          /\ current_lat' = station.latitude
          /\ current_lon' = station.longitude
          /\ current_geo_idx' =
               _find_closest_point_idx(route.geometry, station.latitude,
                                       station.longitude)
  /\ pc' = "loop"
  /\ UNCHANGED <<catalog, suspended, provider, attempts, http, args, ors_request, route, result, error>>

\* One iteration in which a station is found and _identify_safety_insight
\* raises: the exception leaves optimize_route uncaught.
raise_zero_division ==
  /\ pc = "loop"
  /\ StopMandatory
  /\ \E station \in _find_best_station(catalog, current_lat, current_lon,
                                       max_range, args.end_lat, args.end_lon) :
       /\ station # None
       /\ LET dist_to_station ==
                haversine(current_lat, current_lon,
                          station.latitude, station.longitude)
          IN
          /\ ZeroDivisionError \in _identify_safety_insight(catalog, current_lat,
                                     current_lon, station, dist_to_station)
          /\ total_distance_traveled' = total_distance_traveled + dist_to_station
  /\ catalog_queries' = catalog_queries \o <<"bounding box", "bounding box">>
  /\ error' = "ZeroDivisionError"
  /\ pc' = "raised"
  /\ UNCHANGED <<catalog, suspended, provider, attempts, http, args, ors_request, route, current_lat, current_lon,
                 current_geo_idx, fuel_stops, safety_insights, legs, result>>

\* Step 4: average price, total cost, the plan.
calculate_total_cost ==
  /\ pc = "step4"
  /\ catalog_queries' =
       IF Len(fuel_stops) > 0 THEN catalog_queries
       ELSE Append(catalog_queries, "aggregate")
  /\ result' =
       [route |-> route,
        fuel_stops |-> fuel_stops,
        safety_insights |-> safety_insights,
        total_cost |-> TotalCost(route.distance_miles,
                                 AveragePrice(catalog, fuel_stops)),
        total_distance_miles |-> route.distance_miles]
  /\ pc' = "returned"
  /\ UNCHANGED <<catalog, suspended, provider, attempts, http, args, ors_request, route, locals, error>>

\* post answers: 200 with the plan, or the response of the except clause
\* that catches the exception.
post_response ==
  /\ pc \in {"returned", "raised"}
  /\ response = None
  /\ response' = IF pc = "returned" THEN Response(200, "")
                 ELSE ErrorResponse(error)
  /\ UNCHANGED <<catalog, suspended, provider, attempts, pc, args, ors_request, route, locals,
                 catalog_queries, result, error, request_data>>

\* A catalog query fails (the database is unavailable): the aggregate of
\* _get_average_fuel_price or a bounding-box filter raises, and nothing in
\* the service catches it.
catalog_query_fails ==
  /\ \/ pc = "step2" /\ route.distance_miles <= max_range
     \/ pc = "loop" /\ StopMandatory
     \/ pc = "step4" /\ Len(fuel_stops) = 0
  /\ catalog_queries' =
       Append(catalog_queries, IF pc = "loop" THEN "bounding box" ELSE "aggregate")
  /\ error' = "OperationalError"
  /\ pc' = "raised"
  /\ UNCHANGED <<catalog, suspended, provider, attempts, http, args, ors_request, route, locals, result>>

Next ==
  \/ post_validation_error
  \/ optimize_route
  \/ get_directions
  \/ get_directions_raises
  \/ no_stops_needed
  \/ _find_fuel_stops_with_geometry
  \/ loop_exit
  \/ raise_insufficient_stations
  \/ record_fuel_stop
  \/ raise_zero_division
  \/ calculate_total_cost
  \/ post_response

Spec == Init /\ [][Next]_vars

\* The call with a catalog that may be unavailable.
NextWithOutage == Next \/ catalog_query_fails

OutageSpec == Init /\ [][NextWithOutage]_vars

\* get_directions(66, -150, 54, -150) against every provider behaviour.
ClientInit ==
  /\ catalog = {}
  /\ pc = "get_directions"
  /\ args = Requests[1]
  /\ request_data = Requests[1]
  /\ provider \in ProviderBehaviours
  /\ attempts = << >>
  /\ suspended = None
  /\ ors_request = None
  /\ route = None
  /\ current_lat = 0
  /\ current_lon = 0
  /\ current_geo_idx = 0
  /\ total_distance_traveled = 0
  /\ fuel_stops = << >>
  /\ safety_insights = << >>
  /\ legs = << >>
  /\ catalog_queries = << >>
  /\ result = None
  /\ error = "none"
  /\ response = None

ClientNext == get_directions \/ get_directions_raises

ClientSpec == ClientInit /\ [][ClientNext]_vars

\* ------------------------------------------------------ concurrent calls
\* post builds a RouteOptimizationService, and with it an ORSClient and its
\* session, for each request; optimize_route and
\* _find_fuel_stops_with_geometry keep their state in local variables.  A
\* call's frame is everything but the catalog.
Frame(call) ==
  [call |-> call, pc |-> pc, args |-> args, ors_request |-> ors_request,
   route |-> route, current_lat |-> current_lat, current_lon |-> current_lon,
   current_geo_idx |-> current_geo_idx,
   total_distance_traveled |-> total_distance_traveled,
   fuel_stops |-> fuel_stops, safety_insights |-> safety_insights,
   legs |-> legs, catalog_queries |-> catalog_queries, result |-> result,
   error |-> error, request_data |-> request_data, response |-> response,
   provider |-> provider, attempts |-> attempts]

\* The frame of a request that post has received and not yet validated.
IdleFrame(call, behaviour) ==
  [call |-> call, pc |-> "idle", args |-> None, ors_request |-> None,
   route |-> None, current_lat |-> 0, current_lon |-> 0,
   current_geo_idx |-> 0, total_distance_traveled |-> 0,
   fuel_stops |-> << >>, safety_insights |-> << >>, legs |-> << >>,
   catalog_queries |-> << >>, result |-> None, error |-> "none",
   request_data |-> None, response |-> None, provider |-> behaviour,
   attempts |-> << >>]

\* The other of the two calls.
OtherCall(call) == 3 - call

\* A switch between two calls that accumulate their stops in one list
\* shared by both.
context_switch_shared_fuel_stops ==
  /\ suspended # None
  /\ suspended.pc \notin {"returned", "raised"}
  /\ suspended' = Frame(OtherCall(suspended.call))
  /\ pc' = suspended.pc
  /\ args' = suspended.args
  /\ ors_request' = suspended.ors_request
  /\ route' = suspended.route
  /\ current_lat' = suspended.current_lat
  /\ current_lon' = suspended.current_lon
  /\ current_geo_idx' = suspended.current_geo_idx
  /\ total_distance_traveled' = suspended.total_distance_traveled
  /\ fuel_stops' = fuel_stops
  /\ safety_insights' = suspended.safety_insights
  /\ legs' = suspended.legs
  /\ catalog_queries' = suspended.catalog_queries
  /\ result' = suspended.result
  /\ error' = suspended.error
  /\ request_data' = suspended.request_data
  /\ response' = suspended.response
  /\ provider' = suspended.provider
  /\ attempts' = suspended.attempts
  /\ UNCHANGED catalog

\* The scheduler suspends the running call between two of its steps and
\* resumes the other one, which has not finished: each call finds its own
\* frame again, and both see the one catalog.
context_switch ==
  /\ suspended # None
  /\ suspended.pc \notin {"returned", "raised"}
  /\ suspended' = Frame(OtherCall(suspended.call))
  /\ pc' = suspended.pc
  /\ args' = suspended.args
  /\ ors_request' = suspended.ors_request
  /\ route' = suspended.route
  /\ current_lat' = suspended.current_lat
  /\ current_lon' = suspended.current_lon
  /\ current_geo_idx' = suspended.current_geo_idx
  /\ total_distance_traveled' = suspended.total_distance_traveled
  /\ fuel_stops' = suspended.fuel_stops
  /\ safety_insights' = suspended.safety_insights
  /\ legs' = suspended.legs
  /\ catalog_queries' = suspended.catalog_queries
  /\ result' = suspended.result
  /\ error' = suspended.error
  /\ request_data' = suspended.request_data
  /\ response' = suspended.response
  /\ provider' = suspended.provider
  /\ attempts' = suspended.attempts
  /\ UNCHANGED catalog

\* Catalogs of the two-call runs: at most two of the rows W1, W1B, Q and
\* P3.
ConcurrentCatalogs ==
  { c \in Catalogs : /\ Cardinality(c) <= 2
                     /\ \A s \in c : s.truckstop_name \in {"W1", "W1B", "Q", "P3"} }

\* Two requests have arrived; neither call has started.
ConcurrentInit ==
  /\ catalog \in ConcurrentCatalogs
  /\ pc = "idle"
  /\ args = None
  /\ ors_request = None
  /\ route = None
  /\ current_lat = 0
  /\ current_lon = 0
  /\ current_geo_idx = 0
  /\ total_distance_traveled = 0
  /\ fuel_stops = << >>
  /\ safety_insights = << >>
  /\ legs = << >>
  /\ catalog_queries = << >>
  /\ result = None
  /\ error = "none"
  /\ request_data = None
  /\ response = None
  /\ provider \in ProviderSamples
  /\ attempts = << >>
  /\ \E behaviour \in ProviderSamples : suspended = IdleFrame(2, behaviour)

ConcurrentNext ==
  \/ optimize_route
  \/ get_directions
  \/ get_directions_raises
  \/ no_stops_needed
  \/ _find_fuel_stops_with_geometry
  \/ loop_exit
  \/ raise_insufficient_stations
  \/ record_fuel_stop
  \/ raise_zero_division
  \/ calculate_total_cost
  \/ context_switch

ConcurrentSpec == ConcurrentInit /\ [][ConcurrentNext]_vars

\* ---------------------------------------------------- a call run alone
\* What a call leaves behind: the plan it returns or the exception it
\* raises.
Outcome(plan, exc) == [result |-> plan, error |-> exc]

\* The outcomes of _find_fuel_stops_with_geometry and Step 4 from the top
\* of the while loop on, run without interruption; l holds the locals.
RECURSIVE LoopOutcomes(_, _, _, _)
LoopOutcomes(cat, a, r, l) ==
  IF ~(/\ l.current_geo_idx < Len(r.geometry) - 1
       /\ _calculate_geometry_distance(r.geometry, l.current_geo_idx) > max_range)
  THEN { Outcome([route |-> r,
                  fuel_stops |-> l.fuel_stops,
                  safety_insights |-> l.safety_insights,
                  total_cost |-> TotalCost(r.distance_miles,
                                           AveragePrice(cat, l.fuel_stops)),
                  total_distance_miles |-> r.distance_miles], "none") }
  ELSE UNION {
         IF station = None
         THEN { Outcome(None, "InsufficientStationsError") }
         ELSE LET dist_to_station ==
                    haversine(l.current_lat, l.current_lon,
                              station.latitude, station.longitude)
                  traveled == l.total_distance_traveled + dist_to_station
              IN  UNION {
                    IF insight = ZeroDivisionError
                    THEN { Outcome(None, "ZeroDivisionError") }
                    ELSE LoopOutcomes(cat, a, r,
                           [current_lat |-> station.latitude,
                            current_lon |-> station.longitude,
                            current_geo_idx |->
                              _find_closest_point_idx(r.geometry,
                                station.latitude, station.longitude),
                            total_distance_traveled |-> traveled,
                            fuel_stops |->
                              Append(l.fuel_stops, FuelStop(station, traveled)),
                            safety_insights |->
                              IF insight # None
                              THEN Append(l.safety_insights, insight)
                              ELSE l.safety_insights]) :
                    insight \in _identify_safety_insight(cat, l.current_lat,
                                  l.current_lon, station, dist_to_station) } :
         station \in _find_best_station(cat, l.current_lat, l.current_lon,
                                        max_range, a.end_lat, a.end_lon) }

\* The outcomes optimize_route(a) can have over catalog cat when the
\* provider behaves as given and nothing else runs.
RunAlone(cat, a, behaviour) ==
  LET posted == session_post(behaviour)
      r == ParseRoute(ProviderRoutes[RequestIdx(a)])
  IN  IF get_directions_error(posted) # "none"
      THEN { Outcome(None, get_directions_error(posted)) }
      ELSE IF r.distance_miles <= max_range
      THEN { Outcome([route |-> r,
                      fuel_stops |-> << >>,
                      safety_insights |->
                        _generate_initial_safety_insights(r.distance_miles),
                      total_cost |-> TotalCost(r.distance_miles,
                                               _get_average_fuel_price(cat)),
                      total_distance_miles |-> r.distance_miles], "none") }
      ELSE LoopOutcomes(cat, a, r,
             [current_lat |-> a.start_lat, current_lon |-> a.start_lon,
              current_geo_idx |-> 0, total_distance_traveled |-> 0,
              fuel_stops |-> << >>, safety_insights |-> << >>])

\* The call runs to its end: every enabled step is eventually taken.
FairSpec == Spec /\ WF_vars(Next)

Done == pc \in {"returned", "raised"}

\* ======================================================================
\* Properties
\* ======================================================================
Returned == pc = "returned"

\* The position the vehicle refuelled at before stop i of a stop list.
PreStopPosition(stops, i) ==
  IF i = 1 THEN [lat |-> args.start_lat, lon |-> args.start_lon]
  ELSE [lat |-> stops[i - 1].lat, lon |-> stops[i - 1].lon]

\* C1: in every returned plan each fuel stop is within max range
\* (haversine) of the position before it: the start for the first stop,
\* the previous stop for every later one.
C1_StopsWithinRange ==
  Returned =>
    \A i \in 1..Len(result.fuel_stops) :
      haversine(PreStopPosition(result.fuel_stops, i).lat,
                PreStopPosition(result.fuel_stops, i).lon,
                result.fuel_stops[i].lat, result.fuel_stops[i].lon) <= max_range

\* A plan with three stops, while a station sits inside the bounding box of
\* the start yet farther than max range from it.
C1_Witness ==
  /\ Returned
  /\ Len(result.fuel_stops) >= 3
  /\ \E s \in filter(catalog, get_bounding_box(args.start_lat, args.start_lon, max_range)) :
       haversine(args.start_lat, args.start_lon, s.latitude, s.longitude) > max_range

\* C2: in every returned plan distance_from_start is strictly increasing
\* along fuel_stops.
C2_StopsStrictlyIncreasing ==
  Returned =>
    \A i \in 1..(Len(result.fuel_stops) - 1) :
      result.fuel_stops[i].distance_from_start
        < result.fuel_stops[i + 1].distance_from_start

\* The members of a candidate sequence.
Members(q) == { q[i] : i \in 1..Len(q) }

\* r is what the claim lets _find_best_station return for the candidates q
\* seen from (lat, lon): a cheapest viable member, or None when there is none.
CheapestViable(r, q, lat, lon) ==
  LET viable == { c \in Members(q) :
                    Viable(c, lat, lon, max_range, args.end_lat, args.end_lon) }
  IN  IF viable = {} THEN r = None
      ELSE /\ r \in viable
           /\ \A c \in viable : r.retail_price <= c.retail_price

C4_ArrivedWithinRange ==
  (Returned /\ Len(result.fuel_stops) >= 1) =>
    haversine(result.fuel_stops[Len(result.fuel_stops)].lat,
              result.fuel_stops[Len(result.fuel_stops)].lon,
              args.end_lat, args.end_lon) <= max_range

C7_EmptyCatalogRaises ==
  (Done /\ catalog = {} /\ route # None /\ route.distance_miles > max_range) =>
    (pc = "raised" /\ error = "InsufficientStationsError")

\* C8: when the Routing Provider yields no route, optimize_route raises
\* RouteNotFoundError and has issued no catalog query.
C8_NoCatalogQueryWithoutRoute ==
  /\ (pc = "raised" /\ route = None) => error = "RouteNotFoundError"
  /\ error = "RouteNotFoundError" => (pc = "raised" /\ catalog_queries = << >>)

\* A call that ended in RouteNotFoundError over a non-empty catalog.
C8_Witness ==
  /\ pc = "raised"
  /\ error = "RouteNotFoundError"
  /\ catalog # {}

\* The price p of C9 as a sum and a count: the selected stops' prices, or
\* the prices of the whole catalog, or 3.50 for an empty catalog.
C9_Price ==
  IF Len(result.fuel_stops) > 0
  THEN [sum |-> SumStopPrices(result.fuel_stops, 1), n |-> Len(result.fuel_stops)]
  ELSE IF catalog # {}
       THEN [sum |-> SumPrices(catalog), n |-> Cardinality(catalog)]
       ELSE [sum |-> 350, n |-> 1]

\* C9: on every successful return total_cost = (total distance / MPG) * p,
\* p the mean price of the selected stops, or else the catalog-wide average,
\* or 3.50 when the catalog is empty.
C9_TotalCost ==
  Returned =>
    result.total_cost = Frac(result.total_distance_miles * C9_Price.sum,
                             MPG * Milli * Cents * C9_Price.n)

\* The catalog stations at 220..260 miles from a position.
SafetyWindow(lat, lon) ==
  { s \in catalog :
      /\ haversine(lat, lon, s.latitude, s.longitude) >= 220 * Milli
      /\ haversine(lat, lon, s.latitude, s.longitude) <= 260 * Milli }

CheapestOf(rows) ==
  { s \in rows : \A t \in rows : s.retail_price <= t.retail_price }

\* C10: for each recorded stop an insight with a safety_stop is emitted if
\* and only if the leg to the chosen stop is >= 220 miles, some catalog
\* station lies 220..260 miles from the pre-stop position, and the cheapest
\* such station is not the chosen stop.  Where the chosen stop shares the
\* lowest price of the window with another station, either outcome is
\* accepted.
C10_InsightIffWindowOffersAnotherStop ==
  \A k \in 1..Len(legs) :
    LET window == SafetyWindow(legs[k].from_lat, legs[k].from_lon)
        emitted == legs[k].insight # None
    IN  /\ emitted =>
             /\ legs[k].dist_to_station >= 220 * Milli
             /\ \E s \in CheapestOf(window) : s.pk # legs[k].station.pk
        /\ ( /\ legs[k].dist_to_station >= 220 * Milli
             /\ window # {}
             /\ legs[k].station \notin CheapestOf(window) ) => emitted

C12_SafetyStopIsCheapestInWindow ==
  \A k \in 1..Len(legs) :
    legs[k].insight # None =>
      \E s \in CheapestOf(SafetyWindow(legs[k].from_lat, legs[k].from_lon)) :
        /\ s.truckstop_name = legs[k].insight.safety_stop.name
        /\ s.retail_price = legs[k].insight.safety_stop.price

\* C13: a returned plan without fuel stops for a route longer than the
\* 240-mile fatigue threshold carries a standalone DRIVER_FATIGUE_WARNING,
\* one without a safety_stop.
C13_StandaloneWarningOnLongRoute ==
  ( /\ Returned
    /\ result.fuel_stops = << >>
    /\ result.total_distance_miles > 240 * Milli ) =>
    \E i \in 1..Len(result.safety_insights) :
      /\ result.safety_insights[i].type = "DRIVER_FATIGUE_WARNING"
      /\ "safety_stop" \notin DOMAIN result.safety_insights[i]

\* C14: InsufficientStationsError is raised only when no fuel station of
\* the catalog lies within max range (straight-line) of the current
\* position, the one the exception's message names.
C14_RaisedOnlyWithoutStationInRange ==
  (pc = "raised" /\ error = "InsufficientStationsError") =>
    \A s \in catalog :
      haversine(current_lat, current_lon, s.latitude, s.longitude) > max_range

\* C15: a request with a missing coordinate, a latitude or longitude out of
\* range, or start equal to end is answered 400 and never reaches the
\* engine: optimize_route is not called, no Routing Provider call is made
\* and no catalog query is issued.
C15_InvalidRequestNeverReachesEngine ==
  (request_data # None /\ request_data \in InvalidRequests) =>
    /\ response # None
    /\ response.status = 400
    /\ pc = "idle"
    /\ args = None
    /\ ors_request = None
    /\ catalog_queries = << >>

\* A request whose start equals its end, answered 400.
C15_Witness ==
  /\ request_data # None
  /\ FieldErrors(request_data) = {}
  /\ request_data.start_lat = request_data.end_lat
  /\ request_data.start_lon = request_data.end_lon
  /\ response # None
  /\ response.status = 400

\* C16: the endpoint maps each outcome to its own error response:
\* validation failure to 400, RouteNotFoundError to 404 'Route not found',
\* InsufficientStationsError to 500 'Insufficient fuel stations', any other
\* failure, a failed catalog query included, to 500 'Internal server
\* error', never reported as insufficient stations.
C16_ErrorMapping ==
  response # None =>
    /\ ~is_valid(request_data) <=> response.status = 400
    /\ pc = "returned" <=> response.status = 200
    /\ (pc = "raised" /\ error = "RouteNotFoundError")
         <=> response = Response(404, "Route not found")
    /\ (pc = "raised" /\ error = "InsufficientStationsError")
         <=> response = Response(500, "Insufficient fuel stations")
    /\ (pc = "raised" /\ error \notin {"RouteNotFoundError", "InsufficientStationsError"})
         <=> response = Response(500, "Internal server error")

\* A failed catalog query answered with 500 'Internal server error'.
C16_Witness ==
  /\ error = "OperationalError"
  /\ response = Response(500, "Internal server error")

\* What the last attempt of a request met is a provider failure: an error
\* below the session, an HTTP error status, or a body without a route.
ProviderFailure(o) ==
  \/ o.error # "none"
  \/ o.status >= 400
  \/ o.body \in {"no routes key", "empty routes"}

\* C17: every Routing Provider failure in get_directions (network error,
\* timeout, HTTP error status, a response that contains no route) leaves
\* get_directions as RouteNotFoundError and as no other exception, and
\* get_directions raises nothing else.
C17_ProviderFailureIsRouteNotFound ==
  /\ (attempts # << >> /\ ProviderFailure(attempts[Len(attempts)].outcome))
       => (pc = "raised" /\ error = "RouteNotFoundError")
  /\ pc = "raised" => error = "RouteNotFoundError"

\* C17 witness: the request ended on an HTTP error status that is not
\* retried, after a timeout and a 503 were retried, and RouteNotFoundError
\* was raised.
C17_Witness ==
  /\ pc = "raised"
  /\ error = "RouteNotFoundError"
  /\ Len(attempts) = 3
  /\ attempts[1].outcome.error = "ReadTimeoutError"
  /\ attempts[2].outcome.status = 503
  /\ attempts[3].outcome.status = 404

C19_CatalogUnchanged == [][catalog' = catalog]_vars

\* C19 witness: a call has queried a catalog that has rows, recorded a
\* stop and returned its plan.
C19_Witness ==
  /\ pc = "returned"
  /\ catalog # {}
  /\ Len(fuel_stops) >= 1
  /\ Len(catalog_queries) >= 2

\* A call that has finished left an outcome it can have when run alone.
AsWhenRunAlone(f) ==
  f.pc \in {"returned", "raised"}
    => Outcome(f.result, f.error) \in RunAlone(catalog, f.args, f.provider)

\* C20: for any interleaving of two concurrent optimize_route calls over
\* the same unchanged catalog, each call's result (plan or error) is a
\* result the call produces when run alone.
C20_ConcurrentCallsAsAlone ==
  /\ AsWhenRunAlone(Frame(0))
  /\ suspended # None => AsWhenRunAlone(suspended)

\* C20 witness: one call has returned a plan with two stops while the
\* other call is suspended inside its loop with its first stop recorded.
C20_Witness ==
  /\ suspended # None
  /\ pc = "returned"
  /\ Len(result.fuel_stops) = 2
  /\ suspended.pc = "loop"
  /\ Len(suspended.fuel_stops) = 1

C22_BoundingBoxContainsCircle ==
  pc = "loop" =>
    \A radius \in {max_range, 260 * Milli} :
      \A s \in catalog :
        haversine(current_lat, current_lon, s.latitude, s.longitude) <= radius
          => s \in filter(catalog,
                          get_bounding_box(current_lat, current_lon, radius))

\* C23: in every iteration of the stop-selection loop that records a stop,
\* the remaining on-route distance from the new geometry index is strictly
\* smaller than the remaining on-route distance computed at the start of
\* that iteration.
C23_RemainingDistanceDecreases ==
  [][ (pc = "loop" /\ Len(fuel_stops') = Len(fuel_stops) + 1)
        => _calculate_geometry_distance(route.geometry, current_geo_idx')
             < _calculate_geometry_distance(route.geometry, current_geo_idx)
    ]_vars

\* C24: the stop-selection loop is guarded by an iteration cap: the number
\* of loop iterations, and so of recorded stops, in one call never exceeds
\* a fixed constant that is independent of the catalog size.  The loop has
\* no counter, so the only candidate for such a constant is read off the
\* runs: stated here as the number of stops staying below the largest
\* catalog size, whatever that size is.
C24_StopsBelowCatalogSizeBound == Len(fuel_stops) < MaxStations

\* The distance from the current position to the geometry point of 0-based
\* index j.
DistToPoint(j) ==
  haversine(current_lat, current_lon,
            route.geometry[j + 1].lat, route.geometry[j + 1].lon)

C27_ZeroStopPlanWithinRange ==
  (pc = "returned" /\ result.fuel_stops = << >>)
    => result.total_distance_miles <= max_range

\* C28: whenever a stop is mandatory and the catalog contains a station
\* within max range of the current position and strictly closer, in a
\* straight line, to the destination than the current position,
\* InsufficientStationsError is not raised in that iteration.
C28_ViableStationMeansNoRaise ==
  (pc = "raised" /\ error = "InsufficientStationsError") =>
    ~ \E s \in catalog :
        /\ haversine(current_lat, current_lon, s.latitude, s.longitude)
             <= max_range
        /\ haversine(s.latitude, s.longitude, args.end_lat, args.end_lon)
             < haversine(current_lat, current_lon, args.end_lat, args.end_lon)

\* C29: in every returned plan, each fuel stop's distance_from_start is <=
\* the plan's total_distance_miles.
C29_StopsWithinTotalDistance ==
  pc = "returned" =>
    \A i \in 1..Len(result.fuel_stops) :
      result.fuel_stops[i].distance_from_start <= result.total_distance_miles

\* C30: optimize_route is deterministic: two calls with the same start and
\* end, the same provider route and the same catalog contents that both
\* return, return identical plans (same stops in the same order, same
\* safety insights, same total cost), also when several candidate stations
\* share a price.
C30_SameInputsSamePlan ==
  ( /\ suspended # None
    /\ pc = "returned"
    /\ suspended.pc = "returned"
    /\ suspended.args = args
    /\ suspended.provider = provider )
    => suspended.result = result

====
